---- MODULE Spec2Model ----
(***************************************************************************)
(* Model of the HealthGuard-Insurance monitoring core:                     *)
(*   src/app/monitoring.py                 seeding, migration, summary     *)
(*   src/app/services/evidently_reports.py report pipeline                 *)
(*                                                                         *)
(* A DataFrame / SQL table is a record [columns, rows]: columns is the     *)
(* ordered column list, rows a sequence of functions from column name to   *)
(* cell.  Cells are strings, except the cells of prediction_coded, which   *)
(* are <<c>> for the integer c and <<>> for SQL NULL (NaN after the read). *)
(* The SQLite semantics used (connect creates the file, a SELECT on a      *)
(* missing table raises, an INSERT naming an unknown column raises and is  *)
(* rolled back, an INSERT naming fewer columns stores NULL in the others)  *)
(* are those of sqlite3 behind pandas' read_sql_query and to_sql.          *)
(***************************************************************************)
EXTENDS Integers, Sequences, FiniteSets

VARIABLES
    logFile,      \* inference_log.db exists on disk
    logTable,     \* table inference_inputs of the operational log, or NoTable
    csvPresent,   \* the reference CSV file exists
    extFile,      \* extended_data.db exists on disk
    extended,     \* table extended_data of the analytic store, or NoTable
    origTable,    \* table original_data exists in the analytic store
    reports,      \* reports directory: file name -> number of times written
    clock,        \* last reading of datetime.now(), in ticks (fractions of a second)
    result,       \* outcome of the last operation: what it printed, returned or raised
    hist          \* history: row count after the last seeding, migrations since,
                  \* rows the last seeding discarded

vars == <<logFile, logTable, csvPresent, extFile, extended, origTable,
          reports, clock, result, hist>>

----------------------------------------------------------------------------
(* Bounds *)

MaxLog == 1        \* rows in the operational log
RefLen == 1        \* rows in the reference dataset
CodeMargin == 1    \* how far past either end of the label list a logged code goes
MaxClock == 2      \* last clock reading, in ticks
TicksPerSecond == 2 \* clock readings within one second
MaxWrites == 2     \* writes of one report file
MaxRows == RefLen + 2 * MaxLog   \* analytic rows: a seeding and two migrations

----------------------------------------------------------------------------
(* Values *)

None == "None"                    \* Python None / SQL NULL in a cell
NoTable == [columns |-> <<>>, rows |-> <<>>, exists |-> FALSE]
NoneRet == [kind |-> "None"]      \* a function returning None

Table(cols, rows) == [columns |-> cols, rows |-> rows, exists |-> TRUE]

Range(s) == {s[i] : i \in 1..Len(s)}

RECURSIVE SeqsUpTo(_, _)
SeqsUpTo(S, n) ==
    IF n = 0 THEN {<<>>}
    ELSE LET shorter == SeqsUpTo(S, n - 1)
         IN  shorter \cup {Append(s, x) : s \in {t \in shorter : Len(t) = n - 1}, x \in S}

categories ==
    <<"Insufficient_Weight", "Normal_Weight", "Overweight_Level_I",
      "Overweight_Level_II", "Obesity_Type_I", "Obesity_Type_II",
      "Obesity_Type_III">>

\* Python list indexing: categories[i], a negative i counting from the end
PyIndex(list, i) == IF i >= 0 THEN list[i + 1] ELSE list[Len(list) + i + 1]

decode_noLowerBound(x) ==
    IF x[1] < Len(categories) THEN PyIndex(categories, x[1]) ELSE None

\* the lambda of the map: cell <<c>> is the integer c
decode(x) ==
    IF 0 <= x[1] /\ x[1] < Len(categories) THEN PyIndex(categories, x[1]) ELSE None

\* int(x) raises on NaN
IntCoercible(x) == Len(x) = 1

----------------------------------------------------------------------------
(* The operational log and the reference dataset: inputs *)

CodeCells ==
    {<<c>> : c \in (0 - CodeMargin)..(Len(categories) - 1 + CodeMargin)} \cup {<<>>}

LogSchemas ==
    { <<"timestamp", "Age", "prediction_coded">>,
      <<"timestamp", "Age", "SMOKE", "prediction_coded">>,
      <<"timestamp", "prediction_coded">>,
      <<"timestamp", "Age">> }

CellsOf(col) ==
    CASE col = "timestamp"        -> {"2025-03-01"}
      [] col = "Age"              -> {"21"}
      [] col = "SMOKE"            -> {"no"}
      [] col = "prediction_coded" -> CodeCells

RECURSIVE RowsOver(_)
RowsOver(cols) ==
    IF cols = <<>> THEN {<<>>}
    ELSE {[c \in Range(cols) |-> IF c = Head(cols) THEN v ELSE r[c]] :
             r \in RowsOver(Tail(cols)), v \in CellsOf(Head(cols))}

LogTables ==
    {NoTable} \cup
    UNION {{Table(cols, rows) : rows \in SeqsUpTo(RowsOver(cols), MaxLog)} : cols \in LogSchemas}

CsvColumns == <<"Age", "NObeyesdad">>

ReferenceData ==
    Table(CsvColumns,
          [i \in 1..RefLen |->
              [c \in Range(CsvColumns) |->
                  IF c = "Age" THEN "30" ELSE PyIndex(categories, i % Len(categories))]])

TimestampWindow == {"2024-01-01", "2024-12-30"}

----------------------------------------------------------------------------
(* Store Reader/Writer: pandas to_sql over sqlite3 *)

\* the stored form of a row: the table's columns, NULL where the row has none
Stored(cols, row) ==
    [c \in Range(cols) |-> IF c \in DOMAIN row THEN row[c] ELSE None]

AppendRejected_never(table, df) == FALSE

\* to_sql(..., if_exists='append'): one INSERT in one transaction, which
\* sqlite3 refuses when it names a column the table does not have
AppendRejected(table, df) ==
    table.exists /\ ~(Range(df.columns) \subseteq Range(table.columns))

ToSqlAppend_dedup(table, df) ==
    IF ~table.exists THEN Table(df.columns, df.rows)
    ELSE LET New(row) == Stored(table.columns, row) \notin Range(table.rows)
         IN  Table(table.columns,
                   table.rows \o [i \in 1..Len(SelectSeq(df.rows, New)) |->
                                     Stored(table.columns, SelectSeq(df.rows, New)[i])])

ToSqlAppend(table, df) ==
    IF ~table.exists THEN Table(df.columns, df.rows)
    ELSE Table(table.columns,
               table.rows \o [i \in 1..Len(df.rows) |-> Stored(table.columns, df.rows[i])])

ToSqlReplace_appends(table, df) == ToSqlAppend(table, df)

\* to_sql(..., if_exists='replace'): drop, create, insert
ToSqlReplace(table, df) == Table(df.columns, df.rows)

----------------------------------------------------------------------------
(* Migration Pipeline: the transform of lines 35-41 *)

DropColumn(cols, col) == LET Keep(c) == c # col IN SelectSeq(cols, Keep)

AddColumn(cols, col) == IF col \in Range(cols) THEN cols ELSE Append(cols, col)

MigrateColumns_keepsCode(cols) == AddColumn(cols, "NObeyesdad")

\* inference_df after the map and the drop
MigrateColumns(cols) == DropColumn(AddColumn(cols, "NObeyesdad"), "prediction_coded")

MigrateRow_losesTimestamp(cols, row) ==
    [c \in Range(MigrateColumns(cols)) |->
        IF c = "NObeyesdad" THEN decode(row["prediction_coded"])
        ELSE IF c = "timestamp" THEN None ELSE row[c]]

MigrateRow(cols, row) ==
    [c \in Range(MigrateColumns(cols)) |->
        IF c = "NObeyesdad" THEN decode(row["prediction_coded"]) ELSE row[c]]

MigrateBatch(df) ==
    Table(MigrateColumns(df.columns),
          [i \in 1..Len(df.rows) |-> MigrateRow(df.columns, df.rows[i])])

\* KeyError on a log without prediction_coded, ValueError on int(NaN)
TransformRaises(df) ==
    \/ "prediction_coded" \notin Range(df.columns)
    \/ \E i \in 1..Len(df.rows) : ~IntCoercible(df.rows[i]["prediction_coded"])

Outcome(op, raised, msgs, ret) ==
    [op |-> op, raised |-> raised, msgs |-> msgs, ret |-> ret]

migrate_inference_to_extended ==
    /\ logFile' = TRUE
    /\ IF ~logTable.exists
       THEN \* read_sql_query raises: no such table
            /\ result' = Outcome("migrate", FALSE, {"Error during migration"}, NoneRet)
            /\ UNCHANGED <<extFile, extended, hist>>
       ELSE IF Len(logTable.rows) = 0
       THEN /\ result' = Outcome("migrate", FALSE, {"No data to migrate."}, NoneRet)
            /\ UNCHANGED <<extFile, extended, hist>>
       ELSE IF TransformRaises(logTable)
       THEN /\ result' = Outcome("migrate", FALSE, {"Error during migration"}, NoneRet)
            /\ UNCHANGED <<extFile, extended, hist>>
       ELSE IF AppendRejected(extended, MigrateBatch(logTable))
       THEN /\ extFile' = TRUE
            /\ result' = Outcome("migrate", FALSE, {"Error during migration"}, NoneRet)
            /\ UNCHANGED <<extended, hist>>
       ELSE /\ Len(extended.rows) + Len(logTable.rows) <= MaxRows
            /\ extFile' = TRUE
            /\ extended' = ToSqlAppend(extended, MigrateBatch(logTable))
            /\ hist' = [hist EXCEPT !.runs = @ + 1]
            /\ result' = Outcome("migrate", FALSE, {"Successfully migrated"}, NoneRet)
    /\ UNCHANGED <<logTable, csvPresent, origTable, reports, clock>>

----------------------------------------------------------------------------
(* Seeding Pipeline *)

\* original_data with the timestamp column put first
WithTimestamps(df, dates) ==
    Table(<<"timestamp">> \o DropColumn(df.columns, "timestamp"),
          [i \in 1..Len(df.rows) |->
              [c \in Range(df.columns) \cup {"timestamp"} |->
                  IF c = "timestamp" THEN dates[i] ELSE df.rows[i][c]]])

create_extended_data_from_original ==
    /\ IF ~csvPresent
       THEN \* read_csv raises before the store is opened
            /\ result' = Outcome("create", FALSE, {"Error creating extended_data"}, NoneRet)
            /\ UNCHANGED <<extFile, extended, hist>>
       ELSE \E dates \in [1..Len(ReferenceData.rows) -> TimestampWindow] :
            /\ extFile' = TRUE
            /\ extended' = ToSqlReplace(extended, WithTimestamps(ReferenceData, dates))
            /\ hist' = [base |-> Len(ReferenceData.rows), runs |-> 0,
                        dropped |-> Len(extended.rows)]
            /\ result' = Outcome("create", FALSE, {"Created extended_data.db"}, NoneRet)
    /\ UNCHANGED <<logFile, logTable, csvPresent, origTable, reports, clock>>

----------------------------------------------------------------------------
(* Summary Pipeline *)

get_extended_data_summary ==
    /\ result' =
          IF ~extFile
          THEN Outcome("summary", FALSE, {"extended_data.db does not exist yet"}, NoneRet)
          ELSE IF \/ ~extended.exists
                  \/ "NObeyesdad" \notin Range(extended.columns)
                  \/ "timestamp" \notin Range(extended.columns)
          THEN Outcome("summary", FALSE, {"Error getting extended_data summary"}, NoneRet)
          ELSE Outcome("summary", FALSE,
                       {"Total records", "Columns", "Obesity distribution", "Date range"},
                       NoneRet)
    /\ UNCHANGED <<logFile, logTable, csvPresent, extFile, extended, origTable,
                   reports, clock, hist>>

----------------------------------------------------------------------------
(* Report Pipeline *)

\* SELECT * FROM extended_data [LIMIT limit]; a falsy limit reads every row
Limited(table, limit) ==
    IF limit = 0 \/ Len(table.rows) <= limit THEN table
    ELSE Table(table.columns, SubSeq(table.rows, 1, limit))

\* pd.DataFrame()
EmptyDataFrame == Table(<<>>, <<>>)

\* what load_extended_data returns: the pair (df, df_original) when both
\* reads succeed, one empty DataFrame when either raises
LoadExtendedData(limit) ==
    IF extended.exists /\ origTable
    THEN [kind |-> "tuple", df |-> Limited(extended, limit), msgs |-> {}]
    ELSE [kind |-> "DataFrame", df |-> EmptyDataFrame,
          msgs |-> {"Error loading extended data"}]

\* DataFrame.empty
Empty(df) == Len(df.rows) = 0 \/ Len(df.columns) = 0

\* datetime.now().strftime("%Y%m%d_%H%M%S"): the reading cut to whole seconds
Strftime(now) == now \div TicksPerSecond

ReportName(kind, now) == <<kind, Strftime(now)>>

\* save_html(output_path): creates the file or replaces its content
SaveHtml(reps, name) ==
    [n \in DOMAIN reps \cup {name} |->
        IF n = name THEN (IF n \in DOMAIN reps THEN reps[n] + 1 ELSE 1) ELSE reps[n]]

\* how a call ends; read is the clock reading it took, if it took one
Returned(msgs, ret, reps, read) ==
    [raised |-> FALSE, msgs |-> msgs, ret |-> ret, reports |-> reps, read |-> read]

Raised(exc, msgs, reps, read) ==
    [raised |-> TRUE, msgs |-> msgs, ret |-> [kind |-> "raise", exc |-> exc],
     reports |-> reps, read |-> read]

\* the try block of a generator: ok is whether the report library runs and saves
TryRender(kind, ok, now, msgs, reps, read) ==
    IF ok
    THEN Returned(msgs \cup {"report saved"},
                  [kind |-> "path", name |-> ReportName(kind, now)],
                  SaveHtml(reps, ReportName(kind, now)), now)
    ELSE Returned(msgs \cup {"Error generating report"}, NoneRet, reps, read)

\* generate_data_summary_report and generate_obesity_analysis_report:
\* df = load_extended_data(); df.empty is read outside the try block
SingleFrameReport(kind, ok, now, reps, read) ==
    LET ld == LoadExtendedData(0) IN
    IF ld.kind = "tuple" THEN Raised("AttributeError", ld.msgs, reps, read)
    ELSE IF Empty(ld.df)
    THEN Returned(ld.msgs \cup {"No data available for report generation"}, NoneRet, reps, read)
    ELSE TryRender(kind, ok, now, ld.msgs, reps, read)

DataSummaryReport(ok, now, reps, read) ==
    SingleFrameReport("data_summary", ok, now, reps, read)

ObesityAnalysisReport(ok, now, reps, read) ==
    SingleFrameReport("obesity_analysis", ok, now, reps, read)

\* generate_feature_distribution_report:
\* df, df_original = load_extended_data() is unpacked outside the try block
FeatureDistributionReport(ok, now, reps, read) ==
    LET ld == LoadExtendedData(0) IN
    IF ld.kind # "tuple" THEN Raised("ValueError", ld.msgs, reps, read)
    ELSE IF Empty(ld.df)
    THEN Returned(ld.msgs \cup {"No data available for report generation"}, NoneRet, reps, read)
    ELSE TryRender("feature_distribution", ok, now, ld.msgs, reps, read)

\* the dict literal of generate_all_reports, evaluated left to right
AllReports(oks, nows, reps, read) ==
    LET r1 == DataSummaryReport(oks[1], nows[1], reps, read)
        r2 == FeatureDistributionReport(oks[2], nows[2], r1.reports, r1.read)
        r3 == ObesityAnalysisReport(oks[3], nows[3], r2.reports, r2.read)
    IN  IF r1.raised THEN r1
        ELSE IF r2.raised THEN [r2 EXCEPT !.msgs = r1.msgs \cup @]
        ELSE IF r3.raised THEN [r3 EXCEPT !.msgs = r1.msgs \cup r2.msgs \cup @]
        ELSE Returned(r1.msgs \cup r2.msgs \cup r3.msgs \cup {"Report generation complete!"},
                      [kind |-> "dict", data_summary |-> r1.ret,
                       feature_distribution |-> r2.ret, obesity_analysis |-> r3.ret],
                      r3.reports, r3.read)

\* a write is possible while the file has been written fewer than MaxWrites times
WithinWrites(reps) == \A n \in DOMAIN reps : reps[n] <= MaxWrites

Finish(op, r) ==
    /\ WithinWrites(r.reports)
    /\ extFile' = TRUE
    /\ reports' = r.reports
    /\ clock' = r.read
    /\ result' = Outcome(op, r.raised, r.msgs, r.ret)
    /\ UNCHANGED <<logFile, logTable, csvPresent, extended, origTable, hist>>

LoadReturn(limit) ==
    Returned(LoadExtendedData(limit).msgs,
             [kind |-> LoadExtendedData(limit).kind, df |-> LoadExtendedData(limit).df],
             reports, clock)

load_extended_data ==
    \E limit \in 0..1 : Finish("load", LoadReturn(limit))

\* whether a generator gets as far as its try block
SingleFrameRenders ==
    LET ld == LoadExtendedData(0) IN ld.kind # "tuple" /\ ~Empty(ld.df)

FeatureDistributionRenders ==
    LET ld == LoadExtendedData(0) IN ld.kind = "tuple" /\ ~Empty(ld.df)

\* what a generator takes from outside once it is in its try block: whether
\* the report library succeeds, and the reading of datetime.now(), which is
\* never less than the reading before
Inputs(renders) ==
    IF renders THEN {[ok |-> o, now |-> n] : o \in BOOLEAN, n \in clock..MaxClock}
    ELSE {[ok |-> FALSE, now |-> clock]}

generate_data_summary_report ==
    \E in \in Inputs(SingleFrameRenders) :
        Finish("data_summary", DataSummaryReport(in.ok, in.now, reports, clock))

generate_feature_distribution_report ==
    \E in \in Inputs(FeatureDistributionRenders) :
        Finish("feature_distribution",
               FeatureDistributionReport(in.ok, in.now, reports, clock))

generate_obesity_analysis_report ==
    \E in \in Inputs(SingleFrameRenders) :
        Finish("obesity_analysis", ObesityAnalysisReport(in.ok, in.now, reports, clock))

generate_all_reports ==
    \E in1 \in Inputs(SingleFrameRenders), in2 \in Inputs(FeatureDistributionRenders),
       in3 \in Inputs(SingleFrameRenders) :
        /\ (SingleFrameRenders /\ FeatureDistributionRenders) => in1.now <= in2.now
        /\ SingleFrameRenders => in1.now <= in3.now
        /\ (FeatureDistributionRenders /\ SingleFrameRenders) => in2.now <= in3.now
        /\ Finish("generate_all",
                  AllReports(<<in1.ok, in2.ok, in3.ok>>, <<in1.now, in2.now, in3.now>>,
                             reports, clock))

\* get_reports_summary: the whole body is inside the try block
ReportsSummary ==
    LET ld == LoadExtendedData(0)
        total == IF ld.kind = "tuple" THEN 2 ELSE Len(ld.df.rows)
    IN  IF ld.kind = "tuple"
        THEN Returned(ld.msgs \cup {"Error getting reports summary"}, [kind |-> "dict"],
                      reports, clock)
        ELSE Returned(ld.msgs,
                      [kind |-> "dict", total_records |-> total,
                       reports_count |-> Cardinality(DOMAIN reports),
                       obesity_distribution |->
                           ~Empty(ld.df) /\ "NObeyesdad" \in Range(ld.df.columns)],
                      reports, clock)

get_reports_summary == Finish("reports_summary", ReportsSummary)

----------------------------------------------------------------------------

\* Nothing has run yet: no analytic table, no report.  The operational log
\* and the reference file are whatever their owners left there.
InitWith(logs, orig) ==
    /\ logTable \in logs
    /\ logFile = logTable.exists
    /\ csvPresent \in BOOLEAN
    /\ origTable \in orig
    /\ extFile = origTable
    /\ extended = NoTable
    /\ reports = <<>>
    /\ clock = 0
    /\ result = Outcome("none", FALSE, {}, NoneRet)
    /\ hist = [base |-> 0, runs |-> 0, dropped |-> 0]

\* every log, in a store nobody has put a reference table into
Init == InitWith(LogTables, {FALSE})

\* short logs, with and without the reference table original_data
InitReports == InitWith({t \in LogTables : Len(t.rows) <= 1}, BOOLEAN)

Next ==
    \/ migrate_inference_to_extended
    \/ create_extended_data_from_original
    \/ get_extended_data_summary
    \/ load_extended_data
    \/ generate_data_summary_report
    \/ generate_feature_distribution_report
    \/ generate_obesity_analysis_report
    \/ generate_all_reports
    \/ get_reports_summary

Spec == Init /\ [][Next]_vars

SpecReports == InitReports /\ [][Next]_vars

----------------------------------------------------------------------------
(* Vocabulary of the properties *)

Printed(op, msg) == result.op = op /\ msg \in result.msgs

Migrated == Printed("migrate", "Successfully migrated")

MigrationFailed == Printed("migrate", "Error during migration")

Seeded == Printed("create", "Created extended_data.db")

\* a step of the named operation: every operation records itself in result
IsStep(op) == result'.op = op

\* the rows of the last migrated batch, as stored: the tail of the table
BatchRow(i) == extended.rows[Len(extended.rows) - Len(logTable.rows) + i]

\* the log can be transformed: it exists, has rows, and the map does not raise
Transformable == logTable.exists /\ Len(logTable.rows) > 0 /\ ~TransformRaises(logTable)

InRange(c) == 0 <= c /\ c <= 6

----------------------------------------------------------------------------
(* C1: generate_all_reports returns a mapping with the keys data_summary,  *)
(* feature_distribution and obesity_analysis even when one kind fails: the *)
(* failed kind maps to None and no failure aborts the kinds after it.      *)

C1_GenerateAllIsolatesFailures ==
    result.op = "generate_all" =>
        /\ ~result.raised
        /\ result.ret.kind = "dict"
        /\ DOMAIN result.ret =
              {"kind", "data_summary", "feature_distribution", "obesity_analysis"}

----------------------------------------------------------------------------
(* C2: every migration or seeding step either commits its whole batch or   *)
(* reports an error and leaves the analytic table as it was; a seeding run *)
(* without the reference file writes nothing.                              *)

Committed(n) ==
    /\ extended'.exists
    /\ Len(extended'.rows) = Len(extended.rows) + n
    /\ SubSeq(extended'.rows, 1, Len(extended.rows)) = extended.rows

AllOrNothing ==
    /\ IsStep("migrate") =>
          \/ "Successfully migrated" \in result'.msgs /\ Committed(Len(logTable.rows))
          \/ /\ result'.msgs \in {{"Error during migration"}, {"No data to migrate."}}
             /\ extended' = extended
    /\ IsStep("create") =>
          \/ /\ "Created extended_data.db" \in result'.msgs
             /\ extended'.exists
             /\ Len(extended'.rows) = Len(ReferenceData.rows)
          \/ /\ result'.msgs = {"Error creating extended_data"}
             /\ extended' = extended
    /\ (IsStep("create") /\ ~csvPresent) =>
          /\ result'.msgs = {"Error creating extended_data"}
          /\ extended' = extended
          /\ extFile' = extFile

Rejected == result'.msgs = {"Error during migration"} /\ extended' = extended

\* C2 as stated: an append whose columns do not match the table is rejected
C2_MismatchRejected ==
    [][/\ AllOrNothing
       /\ ( /\ IsStep("migrate") /\ Transformable /\ extended.exists
            /\ Range(MigrateColumns(logTable.columns)) # Range(extended.columns) )
          => Rejected]_vars

\* C2 amended: every migration or seeding step is all-or-nothing, and an
\* append whose batch has a column the table lacks is rejected with no row
\* written (a batch whose columns are all in the table is committed whole)
C2_AllOrNothing ==
    [][/\ AllOrNothing
       /\ ( /\ IsStep("migrate") /\ Transformable /\ extended.exists
            /\ ~(Range(MigrateColumns(logTable.columns)) \subseteq Range(extended.columns)) )
          => Rejected]_vars

\* a migration was rejected by the append itself
C2_Witness ==
    /\ MigrationFailed /\ Transformable /\ extended.exists
    /\ "SMOKE" \in Range(logTable.columns)

----------------------------------------------------------------------------
(* C3: every row of the analytic table has the column NObeyesdad, and      *)
(* neither a row nor the table schema has prediction_coded, whatever the   *)
(* order of seeding and migration runs.                                    *)

C3_AnalyticSchema ==
    extended.exists =>
        /\ "NObeyesdad" \in Range(extended.columns)
        /\ "prediction_coded" \notin Range(extended.columns)
        /\ \A i \in 1..Len(extended.rows) :
              /\ "NObeyesdad" \in DOMAIN extended.rows[i]
              /\ "prediction_coded" \notin DOMAIN extended.rows[i]

\* the table was created by a migration, no seeding before it
C3_Witness == extended.exists /\ hist.base = 0 /\ hist.runs >= 1

----------------------------------------------------------------------------
(* C4: after a successful seeding the analytic table holds exactly the     *)
(* reference rows (each with a timestamp of the window put first),         *)
(* whatever it held before: rows of earlier seedings and migrations are    *)
(* gone.                                                                   *)

C4_SeedingReplaces ==
    Seeded =>
        /\ extended.exists
        /\ extended.columns = <<"timestamp">> \o CsvColumns
        /\ Len(extended.rows) = Len(ReferenceData.rows)
        /\ \A i \in 1..Len(extended.rows) :
              /\ extended.rows[i]["timestamp"] \in TimestampWindow
              /\ \A c \in Range(CsvColumns) :
                    extended.rows[i][c] = ReferenceData.rows[i][c]

\* the last seeding replaced a table that held seeded and migrated rows
C4_Witness == Seeded /\ hist.dropped > Len(ReferenceData.rows)

----------------------------------------------------------------------------
(* C5: each successful migration adds exactly the log's row count, with no *)
(* deduplication: k runs over a log of n rows add k*n rows; a run over an  *)
(* empty log leaves the count unchanged and ends with the no-op notice.    *)

C5_MigrationGrowth ==
    /\ Len(extended.rows) = hist.base + hist.runs * Len(logTable.rows)
    /\ (result.op = "migrate" /\ logTable.exists /\ Len(logTable.rows) = 0) =>
          /\ result.msgs = {"No data to migrate."}
          /\ ~result.raised
          /\ Len(extended.rows) = hist.base

\* two runs over an unchanged, non-empty log
C5_Witness == Migrated /\ hist.runs = 2 /\ Len(logTable.rows) >= 1

----------------------------------------------------------------------------
(* C6: migration decodes every code c in 0..6 to the label at index c and  *)
(* every other integer code to None, keeps the row, and never fails        *)
(* because of an out-of-range code.                                        *)

C6_Decode ==
    /\ Migrated =>
          \A i \in 1..Len(logTable.rows) :
              LET c == logTable.rows[i]["prediction_coded"][1]
                  label == BatchRow(i)["NObeyesdad"]
              IN  /\ InRange(c) => label = categories[c + 1]
                  /\ ~InRange(c) => label = None
    /\ MigrationFailed =>
          \/ ~logTable.exists
          \/ TransformRaises(logTable)
          \/ ~(Range(MigrateColumns(logTable.columns)) \subseteq Range(extended.columns))

\* a migrated row with a negative code, kept with the absent label
C6_Witness ==
    /\ Migrated
    /\ \E i \in 1..Len(logTable.rows) :
          /\ logTable.rows[i]["prediction_coded"][1] < 0
          /\ BatchRow(i)["NObeyesdad"] = None

----------------------------------------------------------------------------
(* C7: a migrated row keeps the value of every input column other than     *)
(* prediction_coded, and the batch's columns are the input columns without *)
(* prediction_coded and with NObeyesdad.                                   *)

C7_MigrationFrame ==
    Migrated =>
        /\ \A i \in 1..Len(logTable.rows) :
              \A c \in Range(logTable.columns) \ {"prediction_coded"} :
                  BatchRow(i)[c] = logTable.rows[i][c]
        /\ hist.base = 0 =>
              Range(extended.columns) =
                  (Range(logTable.columns) \ {"prediction_coded"}) \cup {"NObeyesdad"}

\* a batch with feature columns, stored in a table the migration created
C7_Witness ==
    /\ Migrated /\ hist.base = 0
    /\ {"Age", "SMOKE"} \subseteq Range(logTable.columns)

----------------------------------------------------------------------------
(* C8: no pipeline-level function lets an exception reach its caller: on a *)
(* failure it prints a diagnostic and returns a sentinel.                  *)

C8_NoExceptionEscapes == ~result.raised

----------------------------------------------------------------------------
(* C9: while no seeding or migration has created the analytic table, the   *)
(* summary reports "does not exist yet" and nothing else, whatever ran     *)
(* before it.                                                              *)

C9_SummaryNotCreated ==
    (result.op = "summary" /\ ~extended.exists) =>
        result.msgs = {"extended_data.db does not exist yet"}

----------------------------------------------------------------------------
(* C10: a report file is written once: no generation overwrites a file an  *)
(* earlier generation wrote.                                               *)

C10_WrittenOnce == \A n \in DOMAIN reports : reports[n] = 1

====
